---------------------------- MODULE Spec2Model ----------------------------
(***************************************************************************)
(* FoundryAgent (src/src/agent_core.py): the tool registry and the agent   *)
(* session controller.  Every public method is one action; the remote      *)
(* calls a method issues are recorded, in order, in call.calls; run_agent  *)
(* is one step per remote call, since each of them blocks.                 *)
(***************************************************************************)
EXTENDS Naturals, Sequences, FiniteSets

VARIABLES
    config,           \* self.config: the AgentConfig given to __init__
    _tools,           \* self._tools: dict name -> callable, as an ordered list of items
    _function_tools,  \* self._function_tools: list of FunctionTool descriptors
    frame,            \* the locals of the run_agent call in progress, if any
    agents,           \* the remote service's agents: id -> status
    regs,             \* history: the names of the registration calls, in order
    call              \* history: the latest public call, the calls it issued, its outcome

vars == <<config, _tools, _function_tools, frame, agents, regs, call>>

-----------------------------------------------------------------------------
(* Bounds *)

\* registrations explored by the registry specification
MaxRegs == 3
\* registrations explored by the controller specification
MaxCtlRegs == 2
\* length of the message list the remote listing returns
MaxMsgs == 2

-----------------------------------------------------------------------------
(* Python values *)

None == "<None>"

\* truthiness of an Optional[str]: None and "" are both falsy
Falsy(x) == x = None \/ x = ""

\* `x or d`
OrElse(x, d) == IF Falsy(x) THEN d ELSE x

\* str(e) of an exception built from one message
Str(e) == e.msg

NoExc == [type |-> "", msg |-> ""]

\* hasattr(obj, attr) on an object modelled as a record
HasAttr(obj, attr) == attr \in DOMAIN obj

-----------------------------------------------------------------------------
(* Input sets *)

Names == {"a", "b"}
FunctionConfigs == {[function_url |-> "https://x/api/process"]}
LogicAppConfigs == {[workflow_url |-> "https://y/workflows/run"]}
Descriptions == {None, "d1"}
Callables == {[kind |-> "callable", id |-> "f1"]}
Schemas == {[type |-> "string"]}
CustomDescriptions == {""}
Payloads == {[payload |-> "p1"], [payload |-> "p2"]}

\* what a collaborator's call does: return a value or raise an Exception
ClientErrors ==
    { [type |-> "InvocationError", msg |-> "boom"],
      [type |-> "TimeoutError", msg |-> "slow"] }
ClientValues ==
    { [body |-> "v1"], [error |-> "upstream", status |-> "failed"] }
ClientOutcomes ==
    { [fail |-> FALSE, value |-> v, exc |-> NoExc] : v \in ClientValues }
        \cup { [fail |-> TRUE, value |-> None, exc |-> e] : e \in ClientErrors }

ModelNames == {"gpt-4", "gpt-35-turbo"}
DefaultInstructions == "You are a helpful AI assistant with access to Azure tools."

AgentIds == {"ag1", "ag2"}
AgentNames == {None, "", "n1"}
ThreadArgs == {None, "", "t1"}
NewThreadIds == {"t2"}
UserMessages == {"hello"}

\* a message's content items: content[i].text.value exists on text items only
TextContent(v) == [type |-> "text", text |-> [value |-> v]]
ImageContent == [type |-> "image_file", image_file |-> [file_id |-> "img"]]
Contents ==
    { <<>>, <<TextContent("r1")>>, <<TextContent("r2")>>, <<ImageContent>>,
      <<ImageContent, TextContent("r1")>> }
Messages == [role : {"user", "assistant"}, content : Contents]
MessageLists(n) == UNION {[1..k -> Messages] : k \in 0..n}
RemoteErrors == {[type |-> "HttpResponseError", msg |-> "503"]}

\* the outcome of one remote call: failure, or success carrying a value
RemoteFail == {[fail |-> TRUE, value |-> None, exc |-> e] : e \in RemoteErrors}
RemoteOk(values) == {[fail |-> FALSE, value |-> v, exc |-> NoExc] : v \in values}

-----------------------------------------------------------------------------
(* How a method ends, and the record of a call *)

Return(v) == [raised |-> FALSE, exc |-> NoExc, ret |-> v]

Raise(e) == [raised |-> TRUE, exc |-> e, ret |-> None]

\* a call to a collaborator, with what the collaborator answered
Issued(op, args, o) ==
    [op |-> op, args |-> args, fail |-> o.fail, result |-> o.value, exc |-> o.exc]

\* a public call that has ended
Ended(op, args, calls, out) ==
    [op |-> op, args |-> args, calls |-> calls, done |-> TRUE,
     raised |-> out.raised, exc |-> out.exc, ret |-> out.ret]

\* a public call that has begun and issued nothing yet
Begun(op, args) ==
    [op |-> op, args |-> args, calls |-> <<>>, done |-> FALSE,
     raised |-> FALSE, exc |-> NoExc, ret |-> None]

-----------------------------------------------------------------------------
(* dict: insertion-ordered, assignment to an existing key keeps its place *)

HasKey(d, k) == \E i \in DOMAIN d : d[i].name = k

\* variant: assignment to an existing key moves it to the end
DictSetMovesKey(d, k, v) ==
    Append(SelectSeq(d, LAMBDA it : it.name # k), [name |-> k, fn |-> v])

DictSet(d, k, v) ==
    IF HasKey(d, k)
    THEN [i \in DOMAIN d |-> IF d[i].name = k THEN [name |-> k, fn |-> v] ELSE d[i]]
    ELSE Append(d, [name |-> k, fn |-> v])

DictGet(d, k) == d[CHOOSE i \in DOMAIN d : d[i].name = k].fn

\* list(d.keys())
Keys(d) == [i \in DOMAIN d |-> d[i].name]

-----------------------------------------------------------------------------
(* Tool registry *)

FunctionTool(name, description, parameters) ==
    [name |-> name, description |-> description, parameters |-> parameters]

PayloadSchema(target) ==
    [type |-> "object",
     properties |-> [payload |-> [type |-> "object",
                                  description |-> "JSON payload to send to the " \o target]],
     required |-> <<"payload">>]

\* the closure over (name, client) that register_azure_function_tool stores
AzureFunctionWrapper(name, cfg) ==
    [kind |-> "azure_function", name |-> name, client |-> cfg]

\* the closure over (name, client) that register_logic_app_tool stores
LogicAppWrapper(name, cfg) ==
    [kind |-> "logic_app", name |-> name, client |-> cfg]

AzureFunctionDescriptor(name, cfg, description) ==
    FunctionTool(name,
                 OrElse(description,
                        "Azure Function tool: " \o name
                            \o " - Invokes Azure Function at " \o cfg.function_url),
                 PayloadSchema("Azure Function"))

LogicAppDescriptor(name, cfg, description) ==
    FunctionTool(name,
                 OrElse(description,
                        "Logic App workflow tool: " \o name
                            \o " - Triggers workflow at " \o cfg.workflow_url),
                 PayloadSchema("Logic App workflow"))

CustomDescriptor(name, description, parameters) ==
    FunctionTool(name, description, parameters)

\* variant: tool_function without its except clause
AzureToolFunctionReraises(o) ==
    IF o.fail THEN Raise(o.exc) ELSE Return(o.value)

\* tool_function of register_azure_function_tool, once client.invoke_function
\* has answered o
AzureToolFunction(o) ==
    IF o.fail
    THEN Return([error |-> Str(o.exc), status |-> "failed"])
    ELSE Return(o.value)

\* variant: tool_function wrapping a successful result in a status mapping
LogicToolFunctionWraps(o) ==
    IF o.fail
    THEN Return([error |-> Str(o.exc), status |-> "failed"])
    ELSE Return([result |-> o.value, status |-> "success"])

\* tool_function of register_logic_app_tool, once client.trigger_workflow
\* has answered o
LogicToolFunction(o) ==
    IF o.fail
    THEN Return([error |-> Str(o.exc), status |-> "failed"])
    ELSE Return(o.value)

\* variant: a custom callable wrapped like the built-in kinds
CustomFunctionCatches(o) ==
    IF o.fail
    THEN Return([error |-> Str(o.exc), status |-> "failed"])
    ELSE Return(o.value)

\* a caller's callable, stored as it is: what it returns or raises is the result
CustomFunction(o) ==
    IF o.fail THEN Raise(o.exc) ELSE Return(o.value)

\* the collaborator's method a stored callable calls with the keyword arguments
ClientOp(fn) ==
    CASE fn.kind = "azure_function" -> "invoke_function"
      [] fn.kind = "logic_app"      -> "trigger_workflow"
      [] OTHER                      -> "__call__"

\* self._tools[name](**kwargs)
CallTool(fn, o) ==
    CASE fn.kind = "azure_function" -> AzureToolFunction(o)
      [] fn.kind = "logic_app"      -> LogicToolFunction(o)
      [] OTHER                      -> CustomFunction(o)

Idle == frame.pc = "idle"

register_azure_function_tool(name, cfg, description) ==
    /\ Idle
    /\ _tools' = DictSet(_tools, name, AzureFunctionWrapper(name, cfg))
    /\ _function_tools' =
            Append(_function_tools, AzureFunctionDescriptor(name, cfg, description))
    /\ regs' = Append(regs, name)
    /\ call' = Ended("register_azure_function_tool",
                     [name |-> name, config |-> cfg, description |-> description],
                     <<>>, Return(None))
    /\ UNCHANGED <<config, frame, agents>>

register_logic_app_tool(name, cfg, description) ==
    /\ Idle
    /\ _tools' = DictSet(_tools, name, LogicAppWrapper(name, cfg))
    /\ _function_tools' =
            Append(_function_tools, LogicAppDescriptor(name, cfg, description))
    /\ regs' = Append(regs, name)
    /\ call' = Ended("register_logic_app_tool",
                     [name |-> name, config |-> cfg, description |-> description],
                     <<>>, Return(None))
    /\ UNCHANGED <<config, frame, agents>>

register_custom_tool(name, function, description, parameters) ==
    /\ Idle
    /\ _tools' = DictSet(_tools, name, function)
    /\ _function_tools' =
            Append(_function_tools, CustomDescriptor(name, description, parameters))
    /\ regs' = Append(regs, name)
    /\ call' = Ended("register_custom_tool",
                     [name |-> name, function |-> function,
                      description |-> description, parameters |-> parameters],
                     <<>>, Return(None))
    /\ UNCHANGED <<config, frame, agents>>

list_tools ==
    /\ Idle
    /\ call' = Ended("list_tools", <<>>, <<>>, Return(Keys(_tools)))
    /\ UNCHANGED <<config, _tools, _function_tools, frame, agents, regs>>

\* a registered tool is called with keyword arguments; its collaborator answers o
invoke_tool(name, kwargs, o) ==
    /\ Idle
    /\ HasKey(_tools, name)
    /\ LET fn == DictGet(_tools, name)
       IN  call' = Ended("invoke_tool", [name |-> name, kwargs |-> kwargs],
                         <<Issued(ClientOp(fn), [self |-> fn, payload |-> kwargs], o)>>,
                         CallTool(fn, o))
    /\ UNCHANGED <<config, _tools, _function_tools, frame, agents, regs>>

-----------------------------------------------------------------------------
(* Agent session controller *)

\* variant: every remote call inside a try that swallows the failure
PropagatesNever(o) == FALSE

\* no remote call is made inside a try: its failure leaves the method at once
Propagates(o) == o.fail

\* variant: the name passed on without the default
CreateAgentRequestKeepsName(name) ==
    [model |-> config.model_name,
     name |-> name,
     instructions |-> config.instructions,
     tools |-> _function_tools,
     tool_resources |-> <<>>]

\* the keyword arguments of self._client.agents.create_agent
CreateAgentRequest(name) ==
    [model |-> config.model_name,
     name |-> OrElse(name, "Azure Tools Agent"),
     instructions |-> config.instructions,
     tools |-> _function_tools,
     tool_resources |-> <<>>]

\* the remote service assigns an identifier it has not used yet
create_agent(name, o) ==
    /\ Idle
    /\ IF o.fail THEN TRUE ELSE agents[o.value] = "uncreated"
    /\ agents' = IF o.fail THEN agents ELSE [agents EXCEPT ![o.value] = "created"]
    /\ call' = Ended("create_agent", [name |-> name],
                     <<Issued("create_agent", CreateAgentRequest(name), o)>>,
                     IF Propagates(o) THEN Raise(o.exc) ELSE Return(o.value))
    /\ UNCHANGED <<config, _tools, _function_tools, frame, regs>>

\* variant: delete_agent returning the identifier
DeleteAgentReturnsId(agent_id, o) ==
    IF Propagates(o) THEN Raise(o.exc) ELSE Return(agent_id)

DeleteAgent(agent_id, o) ==
    IF Propagates(o) THEN Raise(o.exc) ELSE Return(None)

\* variant: delete_agent clearing the registry
delete_agent_unregisters(agent_id, o) ==
    /\ Idle
    /\ agents' = IF ~o.fail /\ agents[agent_id] = "created"
                 THEN [agents EXCEPT ![agent_id] = "deleted"]
                 ELSE agents
    /\ call' = Ended("delete_agent", [agent_id |-> agent_id],
                     <<Issued("delete_agent", <<agent_id>>, o)>>,
                     DeleteAgent(agent_id, o))
    /\ _tools' = <<>>
    /\ _function_tools' = <<>>
    /\ UNCHANGED <<config, frame, regs>>

delete_agent(agent_id, o) ==
    /\ Idle
    /\ agents' = IF ~o.fail /\ agents[agent_id] = "created"
                 THEN [agents EXCEPT ![agent_id] = "deleted"]
                 ELSE agents
    /\ call' = Ended("delete_agent", [agent_id |-> agent_id],
                     <<Issued("delete_agent", <<agent_id>>, o)>>,
                     DeleteAgent(agent_id, o))
    /\ UNCHANGED <<config, _tools, _function_tools, frame, regs>>

NoFrame ==
    [pc |-> "idle", agent_id |-> None, user_message |-> None, thread_id |-> None]

\* variant: `if thread_id is None`
CreatesThreadIfNone(thread_id) == thread_id = None

\* `if not thread_id`
CreatesThread(thread_id) == Falsy(thread_id)

\* the scan of the listed messages
RECURSIVE FirstAssistantText(_)
FirstAssistantText(messages) ==
    IF messages = <<>>
    THEN Return("No response generated")
    ELSE LET message == Head(messages)
         IN  IF message.role = "assistant"
             THEN IF message.content = <<>>
                  THEN Raise([type |-> "IndexError", msg |-> "list index out of range"])
                  ELSE LET content == message.content[1]
                       IN  IF HasAttr(content, "text")
                           THEN Return(content.text.value)
                           ELSE FirstAssistantText(Tail(messages))
             ELSE FirstAssistantText(Tail(messages))

\* a remote call of run_agent has answered o: the record of the call so far
AfterRemote(entry, o) ==
    IF Propagates(o)
    THEN Ended(call.op, call.args, Append(call.calls, entry), Raise(o.exc))
    ELSE [call EXCEPT !.calls = Append(@, entry)]

\* where run_agent stands after a remote call that answered o
Goto(pc, o) ==
    IF Propagates(o) THEN NoFrame ELSE [frame EXCEPT !.pc = pc]

run_agent(agent_id, user_message, thread_id) ==
    /\ Idle
    /\ frame' = [pc |-> IF CreatesThread(thread_id)
                        THEN "create_thread" ELSE "create_message",
                 agent_id |-> agent_id, user_message |-> user_message,
                 thread_id |-> thread_id]
    /\ call' = Begun("run_agent",
                     [agent_id |-> agent_id, user_message |-> user_message,
                      thread_id |-> thread_id])
    /\ UNCHANGED <<config, _tools, _function_tools, agents, regs>>

run_create_thread(o) ==
    /\ frame.pc = "create_thread"
    /\ call' = AfterRemote(Issued("create_thread", <<>>, o), o)
    /\ frame' = IF Propagates(o) THEN NoFrame
                ELSE [frame EXCEPT !.pc = "create_message", !.thread_id = o.value]
    /\ UNCHANGED <<config, _tools, _function_tools, agents, regs>>

run_create_message(o) ==
    /\ frame.pc = "create_message"
    /\ call' = AfterRemote(
                   Issued("create_message",
                          [thread_id |-> frame.thread_id, role |-> "user",
                           content |-> frame.user_message], o), o)
    /\ frame' = Goto("create_and_process_run", o)
    /\ UNCHANGED <<config, _tools, _function_tools, agents, regs>>

run_create_and_process_run(o) ==
    /\ frame.pc = "create_and_process_run"
    /\ call' = AfterRemote(
                   Issued("create_and_process_run",
                          [thread_id |-> frame.thread_id,
                           agent_id |-> frame.agent_id], o), o)
    /\ frame' = Goto("list_messages", o)
    /\ UNCHANGED <<config, _tools, _function_tools, agents, regs>>

\* the listing and, when it answers, the scan and the return
run_list_messages(o) ==
    /\ frame.pc = "list_messages"
    /\ LET entry == Issued("list_messages", [thread_id |-> frame.thread_id], o)
       IN  call' = IF Propagates(o)
                   THEN AfterRemote(entry, o)
                   ELSE Ended(call.op, call.args, Append(call.calls, entry),
                              FirstAssistantText(o.value))
    /\ frame' = NoFrame
    /\ UNCHANGED <<config, _tools, _function_tools, agents, regs>>

-----------------------------------------------------------------------------
(* Construction *)

InitWith(models) ==
    /\ config \in [model_name : models, instructions : {DefaultInstructions}]
    /\ _tools = <<>>
    /\ _function_tools = <<>>
    /\ frame = NoFrame
    /\ agents = [a \in AgentIds |-> "uncreated"]
    /\ regs = <<>>
    /\ call = Ended("__init__", <<>>, <<>>, Return(None))

-----------------------------------------------------------------------------
(* The registry: registrations of every kind, listing, tool invocation *)

InitRegistry == InitWith({"gpt-4"})

NextRegistry ==
    \/ /\ Len(_function_tools) < MaxRegs
       /\ \E name \in Names, cfg \in FunctionConfigs, d \in Descriptions :
              register_azure_function_tool(name, cfg, d)
    \/ /\ Len(_function_tools) < MaxRegs
       /\ \E name \in Names, cfg \in LogicAppConfigs, d \in Descriptions :
              register_logic_app_tool(name, cfg, d)
    \/ /\ Len(_function_tools) < MaxRegs
       /\ \E name \in Names, f \in Callables, d \in CustomDescriptions, p \in Schemas :
              register_custom_tool(name, f, d, p)
    \/ list_tools
    \/ \E name \in Names, kw \in Payloads, o \in ClientOutcomes :
           invoke_tool(name, kw, o)

SpecRegistry == InitRegistry /\ [][NextRegistry]_vars

-----------------------------------------------------------------------------
(* The run: every message list the remote listing can return *)

RunSteps(lists) ==
    \/ \E o \in RemoteFail \cup RemoteOk(NewThreadIds) : run_create_thread(o)
    \/ \E o \in RemoteFail \cup RemoteOk({None}) : run_create_message(o)
    \/ \E o \in RemoteFail \cup RemoteOk({"completed"}) : run_create_and_process_run(o)
    \/ \E o \in RemoteFail \cup RemoteOk(lists) : run_list_messages(o)

InitRun == InitWith({"gpt-4"})

NextRun ==
    \/ \E agent_id \in AgentIds, m \in UserMessages, thread_id \in ThreadArgs :
           run_agent(agent_id, m, thread_id)
    \/ RunSteps(MessageLists(MaxMsgs))

SpecRun == InitRun /\ [][NextRun]_vars

-----------------------------------------------------------------------------
(* The controller: registrations and the agent lifecycle together *)

CtlMessageLists ==
    { <<>>,
      <<[role |-> "user", content |-> <<TextContent("r1")>>],
        [role |-> "assistant", content |-> <<TextContent("r2")>>]>> }

Init == InitWith(ModelNames)

Next ==
    \/ /\ Len(_function_tools) < MaxCtlRegs
       /\ \E name \in Names, cfg \in FunctionConfigs :
              register_azure_function_tool(name, cfg, None)
    \/ /\ Len(_function_tools) < MaxCtlRegs
       /\ \E name \in Names, cfg \in LogicAppConfigs :
              register_logic_app_tool(name, cfg, None)
    \/ /\ Len(_function_tools) < MaxCtlRegs
       /\ \E name \in Names, f \in Callables, p \in Schemas :
              register_custom_tool(name, f, "d1", p)
    \/ list_tools
    \/ \E name \in AgentNames, o \in RemoteFail \cup RemoteOk(AgentIds) :
           create_agent(name, o)
    \/ \E agent_id \in AgentIds, m \in UserMessages, thread_id \in ThreadArgs :
           run_agent(agent_id, m, thread_id)
    \/ RunSteps(CtlMessageLists)
    \/ \E agent_id \in AgentIds, o \in RemoteFail \cup RemoteOk({None}) :
           delete_agent(agent_id, o)

Spec == Init /\ [][Next]_vars

-----------------------------------------------------------------------------
(* Properties of the registry (SpecRegistry) *)

BuiltIn(fn) == fn.kind \in {"azure_function", "logic_app"}

\* the callable the latest invoke_tool called
InvokedTool == DictGet(_tools, call.args.name)

\* s without the later occurrences of each element
RECURSIVE Uniq(_, _)
Uniq(s, seen) ==
    IF s = <<>> THEN <<>>
    ELSE IF Head(s) \in seen THEN Uniq(Tail(s), seen)
    ELSE <<Head(s)>> \o Uniq(Tail(s), seen \cup {Head(s)})

\* C1: when the client call of a function or logic-app tool raises e, the
\* wrapper returns (does not raise) the mapping with exactly the keys
\* error = str(e) and status = "failed".
C1_WrapperReturnsErrorMapping ==
    (call.op = "invoke_tool" /\ BuiltIn(InvokedTool) /\ call.calls[1].fail) =>
        /\ call.done
        /\ ~call.raised
        /\ DOMAIN call.ret = {"error", "status"}
        /\ call.ret.error = call.calls[1].exc.msg
        /\ call.ret.status = "failed"

C1_Witness ==
    /\ call.op = "invoke_tool"
    /\ InvokedTool.kind = "logic_app"
    /\ call.calls[1].fail
    /\ call.ret = [error |-> "slow", status |-> "failed"]

\* C2: when the client call of a function or logic-app tool returns V, the
\* wrapper has called the client once, with the payload it was given, and
\* returns V itself.
C2_WrapperReturnsValueUnchanged ==
    (call.op = "invoke_tool" /\ BuiltIn(InvokedTool) /\ ~call.calls[1].fail) =>
        /\ Len(call.calls) = 1
        /\ call.calls[1].op = IF InvokedTool.kind = "azure_function"
                              THEN "invoke_function" ELSE "trigger_workflow"
        /\ call.calls[1].args.payload = call.args.kwargs
        /\ call.done
        /\ ~call.raised
        /\ call.ret = call.calls[1].result

C2_Witness ==
    /\ call.op = "invoke_tool"
    /\ InvokedTool.kind = "azure_function"
    /\ call.args.kwargs = [payload |-> "p2"]
    /\ ~call.calls[1].fail
    /\ call.ret = [error |-> "upstream", status |-> "failed"]

\* C5: the registered names are listed once each, in the order of each name's
\* first registration, while the descriptor list has one entry per
\* registration call, in call order; list_tools returns that list of names.
C5_NamesOncePerNameDescriptorsPerCall ==
    /\ Keys(_tools) = Uniq(regs, {})
    /\ Len(_function_tools) = Len(regs)
    /\ \A i \in DOMAIN regs : _function_tools[i].name = regs[i]
    /\ call.op = "list_tools" => call.ret = Uniq(regs, {})

C5_Witness ==
    /\ regs = <<"a", "b", "a">>
    /\ call.op = "list_tools"
    /\ call.ret = <<"a", "b">>
    /\ Len(_function_tools) = 3

\* C9: register_custom_tool stores the caller's callable itself and a
\* descriptor with the given description and parameters; calling the tool
\* raises what the callable raises and returns what it returns.
C9_CustomToolStoredUnwrapped ==
    /\ call.op = "register_custom_tool" =>
          /\ DictGet(_tools, call.args.name) = call.args.function
          /\ _function_tools[Len(_function_tools)] =
                 [name |-> call.args.name,
                  description |-> call.args.description,
                  parameters |-> call.args.parameters]
    /\ (call.op = "invoke_tool" /\ ~BuiltIn(InvokedTool)) =>
          /\ call.calls[1].args.self \in Callables
          /\ call.calls[1].fail =>
                 call.raised /\ call.exc = call.calls[1].exc
          /\ ~call.calls[1].fail =>
                 ~call.raised /\ call.ret = call.calls[1].result

C9_Witness ==
    /\ call.op = "invoke_tool"
    /\ ~BuiltIn(InvokedTool)
    /\ call.raised
    /\ call.exc.type = "InvocationError"
    /\ \E i \in DOMAIN _function_tools :
           /\ _function_tools[i].name = call.args.name
           /\ _function_tools[i].description = ""

-----------------------------------------------------------------------------
(* Properties of run_agent (SpecRun) *)

\* the remote calls of a run, in order, given whether it creates a thread
RunOps(creates) ==
    (IF creates THEN <<"create_thread">> ELSE <<>>)
        \o <<"create_message", "create_and_process_run", "list_messages">>

\* the calls of run_agent issued so far are the first of RunOps(creates), all
\* on one thread: the created one if creates, else the caller's
RunFollows(creates) ==
    LET n == Len(call.calls)
        tid == IF creates THEN call.calls[1].result ELSE call.args.thread_id
    IN  /\ n <= Len(RunOps(creates))
        /\ \A i \in 1..n : call.calls[i].op = RunOps(creates)[i]
        /\ \A i \in 1..n :
               call.calls[i].op # "create_thread" =>
                   call.calls[i].args.thread_id = tid
        /\ \A i \in 1..n :
               call.calls[i].op = "create_message" =>
                   /\ call.calls[i].args.role = "user"
                   /\ call.calls[i].args.content = call.args.user_message
        /\ \A i \in 1..n :
               call.calls[i].op = "create_and_process_run" =>
                   call.calls[i].args.agent_id = call.args.agent_id
        /\ (call.done /\ \A i \in 1..n : ~call.calls[i].fail) =>
               n = Len(RunOps(creates))

\* C3 as stated: a thread is created exactly when thread_id is absent.
C3_ThreadCreatedIffAbsent ==
    call.op = "run_agent" => RunFollows(call.args.thread_id = None)

\* C3, amended: the remote calls of run_agent are issued in the order
\* [create_thread], create_message (role "user"), create_and_process_run,
\* list_messages, all on one thread; a thread is created exactly when
\* thread_id is absent or the empty string, and then the new id is used.
C3_ThreadCreatedIffAbsentOrEmpty ==
    call.op = "run_agent" =>
        RunFollows(call.args.thread_id = None \/ call.args.thread_id = "")

C3_Witness ==
    /\ call.op = "run_agent"
    /\ call.done
    /\ ~call.raised
    /\ call.args.thread_id = ""
    /\ Len(call.calls) = 4
    /\ call.calls[4].op = "list_messages"
    /\ call.calls[4].args.thread_id = "t2"

\* a message exposes textual content: its first content item has a text
ExposesText(m) == m.content # <<>> /\ "text" \in DOMAIN m.content[1]

\* the text of the first assistant message exposing text, else the sentinel
ClaimedResponse(ms) ==
    LET hits == {i \in DOMAIN ms : ms[i].role = "assistant" /\ ExposesText(ms[i])}
    IN  IF hits = {}
        THEN "No response generated"
        ELSE ms[CHOOSE i \in hits : \A j \in hits : i <= j].content[1].text.value

\* C4: whatever list the remote listing returns, run_agent returns the text
\* of its first assistant message that exposes textual content, and "No
\* response generated" when no message does.
C4_ReturnsFirstAssistantText ==
    (/\ call.op = "run_agent"
     /\ call.done
     /\ call.calls # <<>>
     /\ call.calls[Len(call.calls)].op = "list_messages"
     /\ ~call.calls[Len(call.calls)].fail) =>
        /\ ~call.raised
        /\ call.ret = ClaimedResponse(call.calls[Len(call.calls)].result)

-----------------------------------------------------------------------------
(* Properties of the controller (Spec) *)

\* C6: in create_agent, run_agent and delete_agent a failed remote call is the
\* last call issued and its error is raised to the caller; no remote
\* operation is issued twice within one call.
C6_FailurePropagatesNoRetry ==
    call.op \in {"create_agent", "run_agent", "delete_agent"} =>
        /\ \A i \in DOMAIN call.calls :
               call.calls[i].fail =>
                   /\ i = Len(call.calls)
                   /\ call.done
                   /\ call.raised
                   /\ call.exc = call.calls[i].exc
        /\ \A i, j \in DOMAIN call.calls :
               i # j => call.calls[i].op # call.calls[j].op

C6_Witness ==
    /\ call.op = "run_agent"
    /\ call.done
    /\ call.raised
    /\ Len(call.calls) = 2
    /\ call.calls[2].op = "create_message"
    /\ call.calls[2].fail

\* create_agent has issued one create-agent call with the configured model and
\* instructions, the name `sent`, the descriptors in registration order and
\* empty tool-resources, and returns the identifier the service assigned
CreateAgentSends(sent) ==
    /\ Len(call.calls) = 1
    /\ call.calls[1].op = "create_agent"
    /\ call.calls[1].args =
           [model |-> config.model_name,
            name |-> sent,
            instructions |-> config.instructions,
            tools |-> _function_tools,
            tool_resources |-> <<>>]
    /\ Len(call.calls[1].args.tools) = Len(regs)
    /\ \A i \in DOMAIN regs : call.calls[1].args.tools[i].name = regs[i]
    /\ ~call.calls[1].fail => ~call.raised /\ call.ret = call.calls[1].result

\* C7 as stated: the name sent is the caller's, the literal only if omitted.
C7_DefaultNameIffOmitted ==
    call.op = "create_agent" =>
        CreateAgentSends(IF call.args.name = None
                         THEN "Azure Tools Agent" ELSE call.args.name)

\* C7, amended: create_agent issues exactly one create-agent call with the
\* configured model and instructions, empty tool-resources, every descriptor
\* registered so far in registration order and the caller's name, or the
\* literal "Azure Tools Agent" if the name is omitted or the empty string;
\* it returns the identifier the service assigned.
C7_DefaultNameIffOmittedOrEmpty ==
    call.op = "create_agent" =>
        CreateAgentSends(IF call.args.name = None \/ call.args.name = ""
                         THEN "Azure Tools Agent" ELSE call.args.name)

C7_Witness ==
    /\ call.op = "create_agent"
    /\ call.args.name = ""
    /\ call.calls[1].args.name = "Azure Tools Agent"
    /\ config.model_name = "gpt-35-turbo"
    /\ Len(call.calls[1].args.tools) = 2
    /\ call.calls[1].args.tools[1].name = "b"
    /\ call.calls[1].args.tools[2].name = "a"
    /\ call.ret = "ag2"

\* C8: delete_agent issues one remote delete call, with the identifier it was
\* given, and nothing else, and returns None, whatever the agent's state.
C8_DeleteIssuesOneCall ==
    call.op = "delete_agent" =>
        /\ Len(call.calls) = 1
        /\ call.calls[1].op = "delete_agent"
        /\ call.calls[1].args = <<call.args.agent_id>>
        /\ call.done
        /\ ~call.calls[1].fail => ~call.raised /\ call.ret = None

C8_Witness ==
    /\ call.op = "delete_agent"
    /\ agents[call.args.agent_id] = "uncreated"
    /\ ~call.raised
    /\ call.ret = None
    /\ \E a \in AgentIds : agents[a] = "deleted"

\* C10: every step of create_agent, run_agent, delete_agent and list_tools,
\* ending in a return or in an error, leaves the configuration, the
\* name-to-callable mapping and the descriptor list as they were, and a call
\* that has ended leaves no locals behind.
C10_ControllerCallsKeepLocalState ==
    [][call'.op \in {"create_agent", "run_agent", "delete_agent", "list_tools"} =>
          /\ _tools' = _tools
          /\ _function_tools' = _function_tools
          /\ config' = config
          /\ call'.done => frame' = NoFrame]_vars

C10_Witness ==
    /\ call.op = "run_agent"
    /\ call.done
    /\ call.raised
    /\ Len(call.calls) = 4
    /\ Len(_function_tools) = 2
    /\ Len(_tools) = 1
    /\ frame = NoFrame

=============================================================================
